---- MODULE Spec2Model ----
(***************************************************************************)
(* Model of puzzle/2022/d01/main.cpp: read lines from standard input,      *)
(* accumulate integers into `count`, push `count` to `elfs` on every empty *)
(* line, sort `elfs` descending, add elfs[0..2] into `out`, print `out`.   *)
(*                                                                         *)
(* A line is a sequence of one-character strings, as std::string is a      *)
(* sequence of chars; stoi and operator<<(int) are modelled by what they   *)
(* do to those characters.  Values stay far below 2^31, so the width of    *)
(* `int` plays no part within the bounds.                                  *)
(***************************************************************************)
EXTENDS Integers, Sequences, FiniteSets

VARIABLES input, pos, elfs, count, i, out, pc, output, oob

vars == <<input, pos, elfs, count, i, out, pc, output, oob>>

\* ------------------------------------------------------------------ bounds
MaxLines == 7

\* the lines the bounded inputs are built from: empty, "1", "2", and "x"
LineAlphabet == { <<>>, <<"1">>, <<"2">>, <<"x">> }

\* values an out-of-bounds read of the vector's storage may yield
Garbage == {-7, 0, 5}

\* the sample of spec section 8: 3 4 _ 5 _ 10 20 30
ExampleInput ==
  << <<"3">>, <<"4">>, <<>>, <<"5">>, <<>>,
     <<"1","0">>, <<"2","0">>, <<"3","0">> >>

\* negative numbers, a sign, leading blanks and trailing junk, all of which
\* stoi accepts:  -1 _ _ -2 _ " +3x" _
SignedInput ==
  << <<"-","1">>, <<>>, <<>>, <<"-","2">>, <<>>, <<" ","+","3","x">>, <<>> >>

RECURSIVE SeqsUpTo(_, _)
SeqsUpTo(S, n) ==
  IF n = 0 THEN { <<>> }
  ELSE LET shorter == SeqsUpTo(S, n - 1)
       IN  shorter \cup { Append(s, x) : s \in {t \in shorter : Len(t) = n - 1}, x \in S }

Inputs == SeqsUpTo(LineAlphabet, MaxLines) \cup {ExampleInput, SignedInput}

\* --------------------------------------------------------- library functions
DigitChars == <<"0", "1", "2", "3", "4", "5", "6", "7", "8", "9">>

IsDigit(c) == \E d \in DOMAIN DigitChars : DigitChars[d] = c

DigitVal(c) == (CHOOSE d \in DOMAIN DigitChars : DigitChars[d] = c) - 1

IsSpace(c) == c \in {" ", "\t", "\n", "\r"}

RECURSIVE SkipSpace(_)
SkipSpace(s) ==
  IF s # <<>> /\ IsSpace(Head(s)) THEN SkipSpace(Tail(s)) ELSE s

RECURSIVE DigitPrefix(_)
DigitPrefix(s) ==
  IF s # <<>> /\ IsDigit(Head(s)) THEN <<Head(s)>> \o DigitPrefix(Tail(s)) ELSE <<>>

RECURSIVE DigitsValue(_)
DigitsValue(d) ==
  IF d = <<>> THEN 0
  ELSE 10 * DigitsValue(SubSeq(d, 1, Len(d) - 1)) + DigitVal(d[Len(d)])

\* std::stoi: skip white space, take an optional sign, convert the longest
\* run of digits, ignore what follows; no digit at all is invalid_argument.
StoiBody(line) ==
  LET t == SkipSpace(line)
  IN  IF t # <<>> /\ Head(t) \in {"+", "-"} THEN Tail(t) ELSE t

StoiOk(line) == DigitPrefix(StoiBody(line)) # <<>>

stoi(line) ==
  LET t   == SkipSpace(line)
      mag == DigitsValue(DigitPrefix(StoiBody(line)))
  IN  IF t # <<>> /\ Head(t) = "-" THEN 0 - mag ELSE mag

RECURSIVE DecimalDigits(_)
DecimalDigits(n) ==
  IF n < 10 THEN <<DigitChars[n + 1]>>
  ELSE DecimalDigits(n \div 10) \o <<DigitChars[(n % 10) + 1]>>

\* operator<<(ostream&, int): decimal digits, with a leading '-' if negative
ToDecimal(n) ==
  IF n < 0 THEN <<"-">> \o DecimalDigits(0 - n) ELSE DecimalDigits(n)

RECURSIVE InsertDesc(_, _)
InsertDesc(s, x) ==
  IF s = <<>> THEN <<x>>
  ELSE IF x > Head(s) THEN <<x>> \o s
  ELSE <<Head(s)>> \o InsertDesc(Tail(s), x)

\* sort(first, last, greater()): the elements in non-increasing order
RECURSIVE SortDesc(_)
SortDesc(s) ==
  IF s = <<>> THEN <<>> ELSE InsertDesc(SortDesc(Tail(s)), Head(s))

\* iter(i, a, b): the loop macro of the repository's header, i = a, ..., b-1
iter(a, b) == a .. (b - 1)

IterFrom == 0
IterTo == 3

\* ------------------------------------------------------------------- state
TypeOK ==
  /\ input \in Inputs
  /\ pos \in 0 .. Len(input)
  /\ elfs \in Seq(Int)
  /\ count \in Int
  /\ i \in Int
  /\ out \in Int
  /\ pc \in {"scan", "sort", "sum", "done", "aborted", "crashed"}
  /\ output \in Seq(Seq(STRING))
  /\ oob \in BOOLEAN

Init ==
  /\ input \in Inputs
  /\ pos = 0
  /\ elfs = <<>>
  /\ count = 0
  /\ i = 0
  /\ out = 0
  /\ pc = "scan"
  /\ output = <<>>
  /\ oob = FALSE

\* ----------------------------------------------------------------- actions
\* variants of ReadBlank: one that records no sum for an empty accumulator,
\* one that records none for a blank line with no run before it, one that
\* forgets to reset the accumulator
ReadBlank_skipEmpty ==
  /\ pc = "scan"
  /\ pos < Len(input)
  /\ input[pos + 1] = <<>>
  /\ elfs' = IF count = 0 THEN elfs ELSE Append(elfs, count)
  /\ count' = 0
  /\ pos' = pos + 1
  /\ UNCHANGED <<input, i, out, pc, output, oob>>

ReadBlank_dedupe ==
  /\ pc = "scan"
  /\ pos < Len(input)
  /\ input[pos + 1] = <<>>
  /\ elfs' = IF pos = 0 \/ input[pos] = <<>> THEN elfs ELSE Append(elfs, count)
  /\ count' = 0
  /\ pos' = pos + 1
  /\ UNCHANGED <<input, i, out, pc, output, oob>>

ReadBlank_noReset ==
  /\ pc = "scan"
  /\ pos < Len(input)
  /\ input[pos + 1] = <<>>
  /\ elfs' = Append(elfs, count)
  /\ pos' = pos + 1
  /\ UNCHANGED <<input, count, i, out, pc, output, oob>>

\* getline succeeded and line.empty()
ReadBlank ==
  /\ pc = "scan"
  /\ pos < Len(input)
  /\ input[pos + 1] = <<>>
  /\ elfs' = Append(elfs, count)
  /\ count' = 0
  /\ pos' = pos + 1
  /\ UNCHANGED <<input, i, out, pc, output, oob>>

\* getline succeeded, the line is not empty and stoi converts it
ReadInt ==
  /\ pc = "scan"
  /\ pos < Len(input)
  /\ input[pos + 1] # <<>>
  /\ StoiOk(input[pos + 1])
  /\ count' = count + stoi(input[pos + 1])
  /\ pos' = pos + 1
  /\ UNCHANGED <<input, elfs, i, out, pc, output, oob>>

\* getline succeeded, the line is not empty and stoi throws: nothing catches
\* the exception, the process is terminated
ReadBad ==
  /\ pc = "scan"
  /\ pos < Len(input)
  /\ input[pos + 1] # <<>>
  /\ ~StoiOk(input[pos + 1])
  /\ pos' = pos + 1
  /\ pc' = "aborted"
  /\ UNCHANGED <<input, elfs, count, i, out, output, oob>>

\* variant of ReadEOF that records the block the end of input ends
ReadEOF_flush ==
  /\ pc = "scan"
  /\ pos = Len(input)
  /\ elfs' = IF pos > 0 /\ input[pos] # <<>> THEN Append(elfs, count) ELSE elfs
  /\ pc' = "sort"
  /\ UNCHANGED <<input, pos, count, i, out, output, oob>>

\* getline fails at end of input: the loop is left, nothing else happens
ReadEOF ==
  /\ pc = "scan"
  /\ pos = Len(input)
  /\ pc' = "sort"
  /\ UNCHANGED <<input, pos, elfs, count, i, out, output, oob>>

\* sort(...); int out = 0; and the loop variable is set to its start
Sort ==
  /\ pc = "sort"
  /\ elfs' = SortDesc(elfs)
  /\ out' = 0
  /\ i' = IterFrom
  /\ pc' = "sum"
  /\ UNCHANGED <<input, pos, count, output, oob>>

\* out += elfs[i] with i inside the vector
SumStep ==
  /\ pc = "sum"
  /\ i \in iter(IterFrom, IterTo)
  /\ i < Len(elfs)
  /\ out' = out + elfs[i + 1]
  /\ i' = i + 1
  /\ UNCHANGED <<input, pos, elfs, count, pc, output, oob>>

\* out += elfs[i] with i past the end: undefined behaviour, here a read of
\* whatever the storage holds
SumStepGarbage ==
  /\ pc = "sum"
  /\ i \in iter(IterFrom, IterTo)
  /\ i >= Len(elfs)
  /\ \E g \in Garbage : out' = out + g
  /\ i' = i + 1
  /\ oob' = TRUE
  /\ UNCHANGED <<input, pos, elfs, count, pc, output>>

\* out += elfs[i] with i past the end: undefined behaviour, here a fault
\* (an empty vector has a null data pointer)
SumStepFault ==
  /\ pc = "sum"
  /\ i \in iter(IterFrom, IterTo)
  /\ i >= Len(elfs)
  /\ pc' = "crashed"
  /\ oob' = TRUE
  /\ UNCHANGED <<input, pos, elfs, count, i, out, output>>

\* variant of WriteOut whose loop stops at the end of the vector
WriteOut_clamped ==
  /\ pc = "sum"
  /\ i \notin iter(IterFrom, IterTo) \/ i >= Len(elfs)
  /\ output' = Append(output, ToDecimal(out))
  /\ pc' = "done"
  /\ UNCHANGED <<input, pos, elfs, count, i, out, oob>>

\* the loop is over: cout << out << endl
WriteOut ==
  /\ pc = "sum"
  /\ i \notin iter(IterFrom, IterTo)
  /\ output' = Append(output, ToDecimal(out))
  /\ pc' = "done"
  /\ UNCHANGED <<input, pos, elfs, count, i, out, oob>>

Next ==
  \/ ReadBlank
  \/ ReadInt
  \/ ReadBad
  \/ ReadEOF
  \/ Sort
  \/ SumStep
  \/ SumStepGarbage
  \/ SumStepFault
  \/ WriteOut

Spec == Init /\ [][Next]_vars

\* ------------------------------------------------ the program as a function
\* the while loop of main folded over a whole input: <<elfs, count>> at the
\* end of the scan
RECURSIVE ScanFrom(_, _, _)
ScanFrom(lines, e, c) ==
  IF lines = <<>> THEN <<e, c>>
  ELSE IF Head(lines) = <<>> THEN ScanFrom(Tail(lines), Append(e, c), 0)
  ELSE ScanFrom(Tail(lines), e, c + stoi(Head(lines)))

ScanElfs(lines) == ScanFrom(lines, <<>>, 0)[1]

\* what main prints when every read of elfs[i] is inside the vector
MainOut(lines) ==
  LET sorted == SortDesc(ScanElfs(lines))
  IN  sorted[1] + sorted[2] + sorted[3]

\* ------------------------------------------- vocabulary of the specification
Valid(lines) == \A k \in DOMAIN lines : lines[k] = <<>> \/ StoiOk(lines[k])

BlankCount(lines) == Cardinality({k \in DOMAIN lines : lines[k] = <<>>})

RECURSIVE SumSeq(_)
SumSeq(s) == IF s = <<>> THEN 0 ELSE Head(s) + SumSeq(Tail(s))

RECURSIVE LineSum(_)
LineSum(lines) == IF lines = <<>> THEN 0 ELSE stoi(Head(lines)) + LineSum(Tail(lines))

\* the input cut at its blank lines: BlankCount + 1 runs, some maybe empty
RECURSIVE Segments(_)
Segments(lines) ==
  IF \A k \in DOMAIN lines : lines[k] # <<>> THEN <<lines>>
  ELSE LET b == CHOOSE k \in DOMAIN lines :
                  /\ lines[k] = <<>>
                  /\ \A j \in 1 .. (k - 1) : lines[j] # <<>>
       IN  <<SubSeq(lines, 1, b - 1)>> \o Segments(SubSeq(lines, b + 1, Len(lines)))

RECURSIVE Joined(_)
Joined(segs) ==
  IF Len(segs) = 1 THEN segs[1]
  ELSE segs[1] \o << <<>> >> \o Joined(Tail(segs))

\* the runs that a blank line ends, and the run that the end of input ends
TerminatedSegments(lines) ==
  LET segs == Segments(lines) IN SubSeq(segs, 1, Len(segs) - 1)

TrailingSegment(lines) ==
  LET segs == Segments(lines) IN segs[Len(segs)]

RECURSIVE SelectNonEmpty(_)
SelectNonEmpty(segs) ==
  IF segs = <<>> THEN <<>>
  ELSE IF Head(segs) = <<>> THEN SelectNonEmpty(Tail(segs))
  ELSE <<Head(segs)>> \o SelectNonEmpty(Tail(segs))

\* glossary: a group is a maximal run of consecutive non-blank lines
Groups(lines) == SelectNonEmpty(Segments(lines))

SumsOf(segs) == [k \in DOMAIN segs |-> LineSum(segs[k])]

GroupSums(lines) == SumsOf(Groups(lines))

Occurrences(s, v) == Cardinality({k \in DOMAIN s : s[k] = v})

SameBag(s, t) ==
  /\ Len(s) = Len(t)
  /\ \A k \in DOMAIN s : Occurrences(s, s[k]) = Occurrences(t, s[k])

\* the sum of the three largest elements of s, Len(s) >= 3
TopThreeSum(s) ==
  LET D    == DOMAIN s
      sums == { s[t[1]] + s[t[2]] + s[t[3]] :
                  t \in { u \in D \X D \X D : u[1] < u[2] /\ u[2] < u[3] } }
  IN  CHOOSE m \in sums : \A x \in sums : x <= m

\* the input with its k-th and l-th segment exchanged, blank lines in between
SwapSegments(lines, k, l) ==
  LET segs == Segments(lines)
  IN  Joined([n \in DOMAIN segs |->
                IF n = k THEN segs[l] ELSE IF n = l THEN segs[k] ELSE segs[n]])

Terminated == pc \in {"done", "crashed", "aborted"}

AfterScan == pc \in {"sort", "sum", "done", "crashed"}

\* ------------------------------------------------------------------ claims
\* C1: for every input of integer lines grouped by blank lines the program
\* prints the sum of the three largest block sums, a block sum being the sum
\* of the integers of one block.
C1_PrintsTopThreeOfGroups ==
  (Terminated /\ Valid(input) /\ Len(Groups(input)) >= 3)
    => /\ pc = "done"
       /\ output = <<ToDecimal(TopThreeSum(GroupSums(input)))>>

\* C2: on the lines 3, 4, blank, 5, blank, 10, 20, 30 the program records the
\* three sums 7, 5 and 60 and prints 72.
C2_ExampleGivesSeventyTwo ==
  (input = ExampleInput /\ AfterScan)
    => /\ SameBag(elfs, <<7, 5, 60>>)
       /\ pc # "crashed"
       /\ pc = "done" => output = << <<"7", "2">> >>

\* C3: a block that the end of input ends, with no blank line after it, is
\* never appended to the recorded sums and is no part of the printed result:
\* after the scan the recorded sums are exactly the sums of the runs that a
\* blank line ends, the accumulator still holds the sum of the last run, and
\* a result computed inside the vector is the top-three sum of the recorded
\* runs alone.
C3_TrailingBlockDropped ==
  AfterScan
    => /\ SameBag(elfs, SumsOf(TerminatedSegments(input)))
       /\ count = LineSum(TrailingSegment(input))
       /\ (pc = "done" /\ ~oob)
            => output = <<ToDecimal(TopThreeSum(SumsOf(TerminatedSegments(input))))>>

C3_Witness ==
  /\ pc = "done"
  /\ ~oob
  /\ input # <<>>
  /\ input[Len(input)] # <<>>
  /\ count # 0
  /\ Len(Groups(input)) = Len(elfs) + 1

\* C4: after any prefix of the input has been consumed, the number of
\* recorded block sums equals the number of blank lines consumed so far.
C4_OneSumPerBlankLine ==
  Len(elfs) = BlankCount(SubSeq(input, 1, pos))

C4_Witness ==
  /\ pc = "scan"
  /\ pos < Len(input)
  /\ Len(elfs) = 2
  /\ elfs[1] = 0
  /\ count # 0

\* C5: two inputs made of the same groups in a different order, with the
\* blank lines in the same places between them, give the same printed result
\* (both runs staying inside the vector).
C5_GroupOrderIrrelevant ==
  (pc = "done" /\ ~oob)
    => \A k, l \in DOMAIN Segments(input) :
         LET other == SwapSegments(input, k, l)
         IN  (/\ Segments(input)[k] # <<>>
              /\ Segments(input)[l] # <<>>
              /\ Len(ScanElfs(other)) >= 3)
               => output = <<ToDecimal(MainOut(other))>>

\* C6: for every input with exactly three groups the printed output is the
\* sum of all three block sums.
C6_ThreeGroupsSumAll ==
  (Terminated /\ Valid(input) /\ Len(Groups(input)) = 3)
    => /\ pc = "done"
       /\ output = <<ToDecimal(SumSeq(GroupSums(input)))>>

\* C7: on every input of valid lines the program ends having consumed every
\* line and written exactly one line, and nothing is written before the last
\* line has been consumed.
C7_ReadsAllThenWritesOneLine ==
  Valid(input)
    => /\ Terminated => (pos = Len(input) /\ Len(output) = 1)
       /\ output # <<>> => pos = Len(input)

\* C8: with fewer than three recorded block sums the top-three summation
\* reads an index outside the recorded sequence; the loop always runs to
\* index 3 and is not clamped to the number of recorded sums.
C8_TopThreeReadsPastEnd ==
  /\ (pc \in {"done", "crashed"} /\ Len(elfs) < IterTo) => oob
  /\ pc = "done" => i = IterTo
  /\ oob => Len(elfs) < IterTo

C8_Witness ==
  /\ pc = "done"
  /\ oob
  /\ Len(elfs) = 2
  /\ Len(output) = 1

\* C9: a scan step on a blank line appends the accumulator as the last
\* recorded element, keeps the earlier ones and resets the accumulator; a
\* scan step on an integer line adds its value to the accumulator and keeps
\* the recorded sequence; nothing else changes.  So before each line is read
\* the accumulator is the sum of the integer lines since the last blank line.
C9_ScanStepEffect ==
  /\ [][(pc = "scan" /\ pc' = "scan" /\ pos' = pos + 1)
          => /\ IF input[pos'] = <<>>
                  THEN elfs' = Append(elfs, count) /\ count' = 0
                  ELSE elfs' = elfs /\ count' = count + stoi(input[pos'])
             /\ UNCHANGED <<input, i, out, output, oob>>]_vars
  /\ [](pc = "scan" => count = LineSum(TrailingSegment(SubSeq(input, 1, pos))))

C9_Witness ==
  /\ pc = "scan"
  /\ pos < Len(input)
  /\ Len(elfs) = 2
  /\ elfs[2] = 3
  /\ count = 3

\* C10: a blank line that is the first line or follows another blank line
\* records a block sum of 0; such entries stand for no run of non-blank lines
\* and take part in the top-three selection like any other entry.
C10_EmptyRunRecordsZero ==
  /\ [][(/\ pc = "scan"
         /\ pos' = pos + 1
         /\ input[pos'] = <<>>
         /\ (pos = 0 \/ input[pos] = <<>>))
          => elfs' = Append(elfs, 0)]_vars
  /\ [](AfterScan => Len(elfs) = Len(Groups(input)) - (IF TrailingSegment(input) = <<>> THEN 0 ELSE 1)
                       + Cardinality({k \in DOMAIN TerminatedSegments(input) :
                                        TerminatedSegments(input)[k] = <<>>}))
  /\ []((pc = "done" /\ ~oob) => output = <<ToDecimal(TopThreeSum(elfs))>>)

C10_Witness ==
  /\ pc = "done"
  /\ ~oob
  /\ Len(Groups(input)) >= 3
  /\ \E k \in 1 .. 3 : elfs[k] = 0
  /\ output # <<ToDecimal(TopThreeSum(GroupSums(input)))>>

====
